---- MODULE Spec2Model ----
(***************************************************************************)
(* Model of ExpiringSet (src/src/ExpiringSet.ts): a set whose elements are *)
(* grouped into time buckets of width options.gc, expire options.ttl ms    *)
(* after their last add, and are reclaimed by a single self re-arming host *)
(* timer.                                                                  *)
(*                                                                         *)
(* The instance's fields are the variables entries, buckets, gcTimer,      *)
(* options and listeners.  The host is the clock `now` (new Date()) and    *)
(* the set `timers` of outstanding setTimeout timers.  JavaScript runs      *)
(* each method and each timer callback to completion, so every method is   *)
(* one atomic action.                                                      *)
(*                                                                         *)
(* A Map<number, Set<T>> iterates in insertion order, and so does a Set:   *)
(* `buckets` is a sequence of [id, vals] records in insertion order, vals  *)
(* a sequence without duplicates.  The iteration order of `entries` is     *)
(* observable only through the order of forEach's visits, so `entries` is  *)
(* a function from its keys to bucket ids.                                 *)
(***************************************************************************)
EXTENDS Integers, Sequences, FiniteSets, TLC

(* ------------------------------ bounds --------------------------------- *)

NumValues == 2
MaxGc == 2
MaxTtl == 2
MaxOpTime == 2
MaxListeners == 2
MaxInitial == 1
LastCallTime == 1

Values == 1..NumValues
\* the clock runs on for a timer period after the caller's last operation
MaxTime == MaxOpTime + MaxGc
\* the clock runs on after the last operation of a caller that stops early
\* long enough for the last value added to expire and for one more timer
\* period to elapse
QuietMaxTime == LastCallTime + MaxTtl + 2 * MaxGc

(* --------------------------- program constants ------------------------- *)

DefaultGc == 1000
DefaultTtl == 5000

\* `undefined` in the gcTimer field; setTimeout handles are positive
Undefined == 0
\* no add recorded for a value (history variable lastAdd)
Never == -1

VARIABLES
    now,        \* host clock, ms: new Date().getTime()
    timers,     \* host: outstanding setTimeout timers, records [h, due]
    options,    \* this.options
    entries,    \* this.entries : value -> bucket id
    buckets,    \* this.buckets : sequence of [id, vals], insertion order
    gcTimer,    \* this.gcTimer : handle of the pending timer, or Undefined
    listeners,  \* this.listeners : sequence of listener behaviours
    lastOp,     \* history: the operation the last step performed
    reclaimed,  \* history: the batch `values` of the last step, if a sweep
    calls,      \* history: listener invocations made by the last step
    escaped,    \* history: an exception propagated out of the last step
    lastAdd,    \* history: time of the last add of each value not deleted
                \* or cleared since, or Never
    lastSweep,  \* history: time of the last sweep, or Never
    seen,       \* history: the instance as each listener called by the last
                \* step found it
    delivered,  \* history: for each value, the number of times a batch has
                \* held it since its last add
    timedSet    \* an instance of TimedSet with the same options, and its host

vars == <<now, timers, options, entries, buckets, gcTimer, listeners,
          lastOp, reclaimed, calls, escaped, lastAdd, lastSweep, seen,
          delivered, timedSet>>

(* ------------------------------ helpers -------------------------------- *)

\* Map.prototype.set / delete on a map held as a function
MapSet(m, k, x) == [y \in DOMAIN m \cup {k} |-> IF y = k THEN x ELSE m[y]]
MapDelete(m, k) == [y \in DOMAIN m \ {k} |-> m[y]]
EmptyMap == [y \in {} |-> 0]

\* membership in a sequence
InSeq(q, x) == \E i \in 1..Len(q) : q[i] = x

\* position of the bucket with the given id in the bucket map, 0 if absent
BucketIndex(bs, id) ==
    IF \E i \in 1..Len(bs) : bs[i].id = id
    THEN CHOOSE i \in 1..Len(bs) : bs[i].id = id
    ELSE 0

\* Map.prototype.delete(id) on the bucket map
BucketsDelete(bs, id) == SelectSeq(bs, LAMBDA b : b.id # id)

\* Set.prototype.delete(v) / add(v) on the value set of a bucket
SetDelete(q, v) == SelectSeq(q, LAMBDA x : x # v)
SetAdd(q, v) == IF InSeq(q, v) THEN q ELSE Append(q, v)

\* the number Infinity, above every finite bucket id
Infinity == 1000000

\* Math.floor(a / b) for a clock reading a.  The clock readings of the model
\* are offsets from an epoch that is positive, larger than every ttl and a
\* multiple of every gc: for b # 0 the floor of the reading is the floor of
\* the offset plus a constant, and for b = 0 the quotient is +Infinity.
FloorDiv(a, b) ==
    IF b > 0 THEN a \div b
    ELSE IF b < 0 THEN (-a) \div (-b)
    ELSE Infinity

\* Math.floor(new Date().getTime() / this.options.gc)
BucketId(t, o) == FloorDiv(t, o.gc)

\* variant: ttl is subtracted from the bucket id instead of from the time
ExpiredIdTtlInBuckets(t, o) == (t \div o.gc) - o.ttl

\* Math.floor((new Date().getTime() - this.options.ttl) / this.options.gc)
ExpiredId(t, o) == FloorDiv(t - o.ttl, o.gc)

\* Object.assign({gc: 1000, ttl: 5000}, options)
AssignOptions(o) ==
    [gc  |-> IF "gc" \in DOMAIN o THEN o.gc ELSE DefaultGc,
     ttl |-> IF "ttl" \in DOMAIN o THEN o.ttl ELSE DefaultTtl]

\* host setTimeout: a handle no outstanding timer uses
FreshHandle(ts) == CHOOSE h \in 1..(Cardinality(ts) + 1) :
                       \A tm \in ts : tm.h # h

\* host clearTimeout(h)
clearTimeout(ts, h) == {tm \in ts : tm.h # h}

\* host setTimeout(f, ms) called at time t; a delay below 0 counts as 0
setTimeout(ts, t, ms) ==
    ts \cup {[h |-> FreshHandle(ts), due |-> t + (IF ms > 0 THEN ms ELSE 0)]}

(* ------------------------------ methods -------------------------------- *)
(* A method maps the instance-and-host record s (fields entries, buckets,  *)
(* gcTimer, options, listeners, timers, plus the call's outcome: exc, an   *)
(* exception propagated to the caller, ret, the value returned by delete,  *)
(* values, calls, seen and lastAdd) to the record after the call, at clock *)
(* reading t.                                                              *)

size(s) == Cardinality(DOMAIN s.entries)

\* variant: the expiry test is left out
hasWhilePresent(s, v, t) == v \in DOMAIN s.entries

\* variant: the threshold bucket counts as expired
hasStrict(s, v, t) ==
    IF v \notin DOMAIN s.entries
    THEN FALSE
    ELSE s.entries[v] > ExpiredId(t, s.options)

has(s, v, t) ==
    IF v \notin DOMAIN s.entries
    THEN FALSE
    ELSE s.entries[v] >= ExpiredId(t, s.options)

\* this.entries.forEach((value, key) => { if (value < expired) return;
\*   callbackFn(key) }): the sequence of keys the callback is called with;
\* the keys of the map are taken in ascending order
RECURSIVE visitEntries(_, _, _)
visitEntries(m, keys, expired) ==
    IF keys = {}
    THEN <<>>
    ELSE LET k == CHOOSE x \in keys : \A y \in keys : x <= y
         IN (IF m[k] < expired THEN <<>> ELSE <<k>>)
                \o visitEntries(m, keys \ {k}, expired)

\* variant: the callback is called for every entry
forEachNoSkip(s, t) == visitEntries(s.entries, DOMAIN s.entries, -Infinity)

forEach(s, t) ==
    visitEntries(s.entries, DOMAIN s.entries, ExpiredId(t, s.options))

\* variant: a new bucket goes in front of the older ones
createBucketInFront(bs, id) ==
    IF BucketIndex(bs, id) # 0 THEN bs ELSE <<[id |-> id, vals |-> <<>>]>> \o bs

createBucket(bs, id) ==
    IF BucketIndex(bs, id) # 0 THEN bs ELSE Append(bs, [id |-> id, vals |-> <<>>])

\* variant: the pending timer is not cancelled when the set is empty
scheduleWithoutCancel(s, t) ==
    IF size(s) = 0 \/ s.gcTimer # Undefined
    THEN s
    ELSE [s EXCEPT !.gcTimer = FreshHandle(s.timers),
                   !.timers = setTimeout(s.timers, t, s.options.gc)]

\* variant: a timer is armed although one is pending
scheduleAlwaysArms(s, t) ==
    IF size(s) = 0
    THEN IF s.gcTimer # Undefined
         THEN [s EXCEPT !.timers = clearTimeout(s.timers, s.gcTimer),
                        !.gcTimer = Undefined]
         ELSE s
    ELSE [s EXCEPT !.gcTimer = FreshHandle(s.timers),
                   !.timers = setTimeout(s.timers, t, s.options.gc)]

scheduleGarbageCollection(s, t) ==
    IF size(s) = 0
    THEN IF s.gcTimer # Undefined
         THEN [s EXCEPT !.timers = clearTimeout(s.timers, s.gcTimer),
                        !.gcTimer = Undefined]
         ELSE s
    ELSE IF s.gcTimer # Undefined
         THEN s
         ELSE [s EXCEPT !.gcTimer = FreshHandle(s.timers),
                        !.timers = setTimeout(s.timers, t, s.options.gc)]

\* variant: bucket.delete(v) is left out
dropFromBucketKeepsValue(bs, id, v) == bs

\* variant: a bucket that became empty stays in the map
dropFromBucketKeepsEmpty(bs, id, v) ==
    [bs EXCEPT ![BucketIndex(bs, id)].vals = SetDelete(@, v)]

\* bucket.delete(v); if (!bucket.size) this.buckets.delete(id)
\* (the bucket is known to exist: see the callers)
dropFromBucket(bs, id, v) ==
    LET i == BucketIndex(bs, id)
        q == SetDelete(bs[i].vals, v)
    IN IF Len(q) = 0
       THEN BucketsDelete(bs, id)
       ELSE [bs EXCEPT ![i].vals = q]

\* variant: a refreshed value is not taken out of its old bucket
addKeepsOldBucket(s, v, t) ==
    LET id == BucketId(t, s.options)
        bs2 == createBucket(s.buckets, id)
        i == BucketIndex(bs2, id)
        s1 == [s EXCEPT !.entries = MapSet(s.entries, v, id),
                        !.buckets = [bs2 EXCEPT ![i].vals = SetAdd(@, v)]]
    IN scheduleGarbageCollection(s1, t)

add(s, v, t) ==
    LET id == BucketId(t, s.options)
        move == v \in DOMAIN s.entries /\ s.entries[v] # id
    IN IF move /\ BucketIndex(s.buckets, s.entries[v]) = 0
       THEN \* this.buckets.get(currentId) is undefined: TypeError
            [s EXCEPT !.exc = TRUE]
       ELSE LET bs1 == IF move
                       THEN dropFromBucket(s.buckets, s.entries[v], v)
                       ELSE s.buckets
                bs2 == createBucket(bs1, id)
                i == BucketIndex(bs2, id)
                s1 == [s EXCEPT !.entries = MapSet(s.entries, v, id),
                                !.buckets = [bs2 EXCEPT ![i].vals = SetAdd(@, v)]]
            IN scheduleGarbageCollection(s1, t)

\* variant: the timer is not re-evaluated
clearKeepsTimer(s, t) == [s EXCEPT !.entries = EmptyMap, !.buckets = <<>>]

clear(s, t) ==
    scheduleGarbageCollection(
        [s EXCEPT !.entries = EmptyMap, !.buckets = <<>>], t)

\* variant: the guard asks has(v) instead of this.entries.has(v)
deleteIfPresent(s, v, t) ==
    IF ~has(s, v, t)
    THEN [s EXCEPT !.ret = FALSE]
    ELSE [scheduleGarbageCollection(
             [s EXCEPT !.buckets = dropFromBucket(s.buckets, s.entries[v], v),
                       !.entries = MapDelete(s.entries, v)], t)
             EXCEPT !.ret = TRUE]

\* variant: the whole bucket of v is dropped
deleteDropsBucket(s, v, t) ==
    IF v \notin DOMAIN s.entries
    THEN [s EXCEPT !.ret = FALSE]
    ELSE [scheduleGarbageCollection(
             [s EXCEPT !.buckets = BucketsDelete(s.buckets, s.entries[v]),
                       !.entries = MapDelete(s.entries, v)], t)
             EXCEPT !.ret = TRUE]

delete(s, v, t) ==
    IF v \notin DOMAIN s.entries
    THEN [s EXCEPT !.ret = FALSE]
    ELSE IF BucketIndex(s.buckets, s.entries[v]) = 0
    THEN [s EXCEPT !.exc = TRUE]
    ELSE [scheduleGarbageCollection(
             [s EXCEPT !.buckets = dropFromBucket(s.buckets, s.entries[v], v),
                       !.entries = MapDelete(s.entries, v)], t)
             EXCEPT !.ret = TRUE]

listen(s, f) == [s EXCEPT !.listeners = Append(@, f)]

\* for (const [id, bucket] of this.buckets) { if (id > expired) continue;
\*   values = [...values, ...bucket.values()]; this.buckets.delete(id); }
\* the batch collected from the buckets, in the map's iteration order
\* variant: each bucket's values are put in front of the batch
RECURSIVE collectValuesPrepending(_, _)
collectValuesPrepending(bs, expired) ==
    IF Len(bs) = 0
    THEN <<>>
    ELSE IF Head(bs).id > expired
         THEN collectValuesPrepending(Tail(bs), expired)
         ELSE collectValuesPrepending(Tail(bs), expired) \o Head(bs).vals

RECURSIVE collectValues(_, _)
collectValues(bs, expired) ==
    IF Len(bs) = 0
    THEN <<>>
    ELSE IF Head(bs).id > expired
         THEN collectValues(Tail(bs), expired)
         ELSE Head(bs).vals \o collectValues(Tail(bs), expired)

\* variant: the loop empties the bucket map
keptBucketsNone(bs, expired) == <<>>

\* variant: this.buckets.delete(id) is left out
keptBucketsAll(bs, expired) == bs

\* the buckets the loop above leaves in the map
keptBuckets(bs, expired) == SelectSeq(bs, LAMBDA b : b.id > expired)

\* variant: the loop over the batch is left out
deleteEntriesNone(m, values) == m

\* for (const value of values) this.entries.delete(value)
deleteEntries(m, values) == [y \in {k \in DOMAIN m : ~InSeq(values, k)} |-> m[y]]

\* what a listener finds when it is called
Snapshot(s) == [entries |-> s.entries, buckets |-> s.buckets,
                gcTimer |-> s.gcTimer, timers |-> s.timers]

\* listener(values), called at clock reading t.  A listener returns, throws,
\* or re-enters the set it listens to: it adds the first value of the batch
\* again, deletes a value that is still tracked (the smallest), or clears.
callListener(s, f, values, t) ==
    CASE f = "throws" -> [s EXCEPT !.exc = TRUE]
      [] f = "adds" ->
           [add(s, values[1], t) EXCEPT !.lastAdd[values[1]] = t]
      [] f = "deletes" ->
           IF DOMAIN s.entries = {}
           THEN s
           ELSE LET v == CHOOSE x \in DOMAIN s.entries :
                             \A y \in DOMAIN s.entries : x <= y
                IN [delete(s, v, t) EXCEPT !.lastAdd[v] = Never]
      [] f = "clears" ->
           [clear(s, t) EXCEPT !.lastAdd = [v \in Values |-> Never]]
      [] OTHER -> s

\* for (const listener of this.listeners) { try { listener(values) } catch (e) {} }
\* from the i-th listener on
\* variant: no try/catch around listener(values)
RECURSIVE notifyListenersNoCatch(_, _, _, _)
notifyListenersNoCatch(s, values, i, t) ==
    IF i > Len(s.listeners)
    THEN s
    ELSE LET s1 == [s EXCEPT !.calls =
                        Append(@, [listener |-> i, values |-> values]),
                             !.seen = Append(@, Snapshot(s))]
             s2 == callListener(s1, s.listeners[i], values, t)
         IN IF s2.exc
            THEN s2
            ELSE notifyListenersNoCatch(s2, values, i + 1, t)

RECURSIVE notifyListeners(_, _, _, _)
notifyListeners(s, values, i, t) ==
    IF i > Len(s.listeners)
    THEN s
    ELSE LET s1 == [s EXCEPT !.calls =
                        Append(@, [listener |-> i, values |-> values]),
                             !.seen = Append(@, Snapshot(s))]
             s2 == callListener(s1, s.listeners[i], values, t)
         IN notifyListeners([s2 EXCEPT !.exc = FALSE], values, i + 1, t)

\* variant: the listeners are called before the batch leaves the maps
sweepNotifiesFirst(s, t) ==
    LET expired == ExpiredId(t, s.options)
        values == collectValues(s.buckets, expired)
        s0 == [s EXCEPT !.gcTimer = Undefined, !.values = values]
        s1 == IF Len(values) = 0 THEN s0 ELSE notifyListeners(s0, values, 1, t)
        s2 == [s1 EXCEPT !.buckets = keptBuckets(s1.buckets, expired),
                         !.entries = deleteEntries(s1.entries, values)]
    IN scheduleGarbageCollection(s2, t)

\* variant: `delete this.gcTimer` is left out
sweepKeepsTimerField(s, t) ==
    LET expired == ExpiredId(t, s.options)
        values == collectValues(s.buckets, expired)
        s1 == [s EXCEPT !.buckets = keptBuckets(s.buckets, expired),
                        !.entries = deleteEntries(s.entries, values),
                        !.values = values]
        s2 == scheduleGarbageCollection(s1, t)
    IN IF Len(values) = 0
       THEN s2
       ELSE notifyListeners(s2, values, 1, t)

performGarbageCollection(s, t) ==
    LET expired == ExpiredId(t, s.options)
        values == collectValues(s.buckets, expired)
        s1 == [s EXCEPT !.gcTimer = Undefined,
                        !.buckets = keptBuckets(s.buckets, expired),
                        !.entries = deleteEntries(s.entries, values),
                        !.values = values]
        s2 == scheduleGarbageCollection(s1, t)
    IN IF Len(values) = 0
       THEN s2
       ELSE notifyListeners(s2, values, 1, t)

\* constructor(values, options): Object.assign, then add each value
RECURSIVE addAll(_, _, _)
addAll(s, values, t) ==
    IF Len(values) = 0 \/ s.exc
    THEN s
    ELSE addAll(add(s, Head(values), t), Tail(values), t)

constructor(values, o, ts, t) ==
    addAll([entries |-> EmptyMap, buckets |-> <<>>, gcTimer |-> Undefined,
            options |-> AssignOptions(o), listeners |-> <<>>, timers |-> ts,
            exc |-> FALSE, ret |-> FALSE, values |-> <<>>, calls |-> <<>>,
            seen |-> <<>>, lastAdd |-> [v \in Values |-> Never]],
           values, t)

(* ------------------------------ TimedSet ------------------------------- *)
(* The methods of class TimedSet, on a record with the fields of the       *)
(* instance (entries, buckets, gcTimer, options, listeners), the timers of *)
(* its host, and the outcome of the call (exc, values, calls).             *)

TimedSet_size(s) == Cardinality(DOMAIN s.entries)

TimedSet_bucketId(s, t) == FloorDiv(t, s.options.gc)

TimedSet_createBucket(bs, id) ==
    IF BucketIndex(bs, id) # 0 THEN bs ELSE Append(bs, [id |-> id, vals |-> <<>>])

TimedSet_gc(s, t) ==
    IF TimedSet_size(s) = 0
    THEN IF s.gcTimer # Undefined
         THEN [s EXCEPT !.timers = clearTimeout(s.timers, s.gcTimer),
                        !.gcTimer = Undefined]
         ELSE s
    ELSE IF s.gcTimer # Undefined
         THEN s
         ELSE [s EXCEPT !.gcTimer = FreshHandle(s.timers),
                        !.timers = setTimeout(s.timers, t, s.options.gc)]

\* bucket.delete(v); if (!bucket.size) this.buckets.delete(id)
TimedSet_dropFromBucket(bs, id, v) ==
    LET i == BucketIndex(bs, id)
        q == SetDelete(bs[i].vals, v)
    IN IF Len(q) = 0
       THEN BucketsDelete(bs, id)
       ELSE [bs EXCEPT ![i].vals = q]

TimedSet_add(s, v, t) ==
    LET id == TimedSet_bucketId(s, t)
        move == v \in DOMAIN s.entries /\ s.entries[v] # id
    IN IF move /\ BucketIndex(s.buckets, s.entries[v]) = 0
       THEN [s EXCEPT !.exc = TRUE]
       ELSE LET bs1 == IF move
                       THEN TimedSet_dropFromBucket(s.buckets, s.entries[v], v)
                       ELSE s.buckets
                bs2 == TimedSet_createBucket(bs1, id)
                i == BucketIndex(bs2, id)
            IN TimedSet_gc(
                   [s EXCEPT !.entries = MapSet(s.entries, v, id),
                             !.buckets = [bs2 EXCEPT ![i].vals = SetAdd(@, v)]],
                   t)

TimedSet_clear(s, t) ==
    TimedSet_gc([s EXCEPT !.entries = EmptyMap, !.buckets = <<>>], t)

TimedSet_delete(s, v, t) ==
    IF v \notin DOMAIN s.entries
    THEN s
    ELSE IF BucketIndex(s.buckets, s.entries[v]) = 0
    THEN [s EXCEPT !.exc = TRUE]
    ELSE TimedSet_gc(
             [s EXCEPT !.buckets =
                           TimedSet_dropFromBucket(s.buckets, s.entries[v], v),
                       !.entries = MapDelete(s.entries, v)], t)

TimedSet_has(s, v, t) ==
    IF v \notin DOMAIN s.entries
    THEN FALSE
    ELSE s.entries[v] >= FloorDiv(t - s.options.ttl, s.options.gc)

TimedSet_listen(s, f) == [s EXCEPT !.listeners = Append(@, f)]

\* the loop over this.buckets in __gc: the batch, in iteration order
RECURSIVE TimedSet_collect(_, _)
TimedSet_collect(bs, expired) ==
    IF Len(bs) = 0
    THEN <<>>
    ELSE IF Head(bs).id > expired
         THEN TimedSet_collect(Tail(bs), expired)
         ELSE Head(bs).vals \o TimedSet_collect(Tail(bs), expired)

\* for (let listener of this.listeners) { try { listener(values) } catch (e) {} }
\* a listener returns or throws
RECURSIVE TimedSet_notify(_, _, _)
TimedSet_notify(s, values, i) ==
    IF i > Len(s.listeners)
    THEN s
    ELSE TimedSet_notify(
             [s EXCEPT !.calls = Append(@, [listener |-> i, values |-> values])],
             values, i + 1)

\* variant: `if (!values.length) return` is left out
TimedSet__gcNotifiesEmpty(s, t) ==
    LET expired == FloorDiv(t - s.options.ttl, s.options.gc)
        values == TimedSet_collect(s.buckets, expired)
        s1 == [s EXCEPT !.gcTimer = Undefined,
                        !.buckets = SelectSeq(s.buckets,
                                              LAMBDA b : b.id > expired),
                        !.entries = [y \in {k \in DOMAIN s.entries :
                                               ~InSeq(values, k)} |-> s.entries[y]],
                        !.values = values]
    IN TimedSet_notify(TimedSet_gc(s1, t), values, 1)

TimedSet__gc(s, t) ==
    LET expired == FloorDiv(t - s.options.ttl, s.options.gc)
        values == TimedSet_collect(s.buckets, expired)
        s1 == [s EXCEPT !.gcTimer = Undefined,
                        !.buckets = SelectSeq(s.buckets,
                                              LAMBDA b : b.id > expired),
                        !.entries = [y \in {k \in DOMAIN s.entries :
                                               ~InSeq(values, k)} |-> s.entries[y]],
                        !.values = values]
        s2 == TimedSet_gc(s1, t)
    IN IF Len(values) = 0
       THEN s2
       ELSE TimedSet_notify(s2, values, 1)

\* constructor(options): Object.assign over the defaults
TimedSetDefaultTtl == 5000
TimedSetDefaultGc == 1000

TimedSet_constructor(o) ==
    [entries |-> EmptyMap, buckets |-> <<>>, gcTimer |-> Undefined,
     options |-> [gc  |-> IF "gc" \in DOMAIN o THEN o.gc ELSE TimedSetDefaultGc,
                  ttl |-> IF "ttl" \in DOMAIN o THEN o.ttl
                                                 ELSE TimedSetDefaultTtl],
     listeners |-> <<>>, timers |-> {},
     exc |-> FALSE, values |-> <<>>, calls |-> <<>>]

(* ----------------------------- the system ------------------------------ *)

\* what a listener does when called
ListenerKinds == {"returns", "throws"}

\* listeners that call back into the set
ReentrantKinds == {"adds", "deletes", "clears"}

\* options the set is constructed with
OptionChoices == {[gc |-> g, ttl |-> l] : g \in 1..MaxGc, l \in 1..MaxTtl}

\* initial values the set is constructed with
InitialValues == UNION {[1..n -> Values] : n \in 0..MaxInitial}

\* the instance and its host at the start of a call
Self == [entries |-> entries, buckets |-> buckets, gcTimer |-> gcTimer,
         options |-> options, listeners |-> listeners, timers |-> timers,
         exc |-> FALSE, ret |-> FALSE, values |-> <<>>, calls |-> <<>>,
         seen |-> <<>>, lastAdd |-> lastAdd]

\* how many times v occurs in the batch
Occurrences(values, v) == Cardinality({j \in 1..Len(values) : values[j] = v})

\* the record of the operation a step performed: for add, ret tells whether
\* the value moved from an older bucket; for delete, ret is the return value;
\* had is has(v) just before an add or delete of v, and whether the set had
\* entries just before a clear
Op(name, v, ret, had) == [op |-> name, v |-> v, ret |-> ret, had |-> had]

\* the instance and its host after a call that returned r
Assign(r) ==
    /\ entries' = r.entries
    /\ buckets' = r.buckets
    /\ gcTimer' = r.gcTimer
    /\ options' = r.options
    /\ listeners' = r.listeners
    /\ timers' = r.timers
    /\ reclaimed' = r.values
    /\ calls' = r.calls
    /\ seen' = r.seen
    /\ escaped' = r.exc

\* a call is evaluated once, and its outcome becomes the next state
Commit(call) == \E r \in {call} : Assign(r)

\* options of any sign for gc: the constructor takes what it is given
AnyOptionChoices ==
    {[gc |-> g, ttl |-> l] : g \in (-1)..MaxGc, l \in 1..MaxTtl}

\* the state after new ExpiringSet(vs, o), o among choices
InitWith(choices) ==
    /\ now = 0
    /\ \E o \in choices, vs \in InitialValues :
          LET r == constructor(vs, o, {}, 0)
          IN /\ entries = r.entries
             /\ buckets = r.buckets
             /\ gcTimer = r.gcTimer
             /\ options = r.options
             /\ timedSet = TimedSet_constructor(o)
             /\ listeners = r.listeners
             /\ timers = r.timers
             /\ escaped = r.exc
             /\ lastAdd = [v \in Values |-> IF InSeq(vs, v) THEN 0 ELSE Never]
    /\ reclaimed = <<>>
    /\ calls = <<>>
    /\ seen = <<>>
    /\ delivered = [v \in Values |-> 0]
    /\ lastOp = Op("new", 0, FALSE, FALSE)
    /\ lastSweep = Never

Init == InitWith(OptionChoices)

AnyGcInit == InitWith(AnyOptionChoices)

\* the TimedSet instance and its host at the start of a call
TimedSetSelf == [timedSet EXCEPT !.exc = FALSE, !.values = <<>>, !.calls = <<>>]

\* the caller is active until MaxOpTime; a ...Call action is the call on the
\* ExpiringSet instance alone
AddCall(v) ==
    /\ now <= MaxOpTime
    /\ Commit(add(Self, v, now))
    /\ lastAdd' = [lastAdd EXCEPT ![v] = now]
    /\ delivered' = [delivered EXCEPT ![v] = 0]
    /\ lastOp' = Op("add", v,
                     v \in DOMAIN entries /\ entries[v] # BucketId(now, options),
                     has(Self, v, now))
    /\ UNCHANGED <<now, lastSweep>>

DeleteCall(v) ==
    /\ now <= MaxOpTime
    /\ \E r \in {delete(Self, v, now)} :
          /\ Assign(r)
          /\ lastOp' = Op("delete", v, r.ret, has(Self, v, now))
    /\ lastAdd' = [lastAdd EXCEPT ![v] = Never]
    /\ delivered' = [delivered EXCEPT ![v] = 0]
    /\ UNCHANGED <<now, lastSweep>>

ClearCall ==
    /\ now <= MaxOpTime
    /\ Commit(clear(Self, now))
    /\ lastAdd' = [v \in Values |-> Never]
    /\ delivered' = [v \in Values |-> 0]
    /\ lastOp' = Op("clear", 0, FALSE, DOMAIN entries # {})
    /\ UNCHANGED <<now, lastSweep>>

ListenCall(f) ==
    /\ now <= MaxOpTime
    /\ Len(listeners) < MaxListeners
    /\ Commit(listen(Self, f))
    /\ lastOp' = Op("listen", 0, FALSE, FALSE)
    /\ UNCHANGED <<now, lastAdd, lastSweep, delivered>>

\* the host runs the callback of a timer that is due: () => this.performGarbageCollection()
FireCall ==
    /\ \E tm \in timers :
          /\ now >= tm.due
          /\ \E r \in {performGarbageCollection(
                          [Self EXCEPT !.timers = @ \ {tm}], now)} :
                /\ Assign(r)
                /\ lastAdd' = r.lastAdd
                /\ delivered' =
                       [v \in Values |->
                           IF r.lastAdd[v] # lastAdd[v]
                           THEN 0   \* a listener added or removed v
                           ELSE delivered[v] + Occurrences(r.values, v)]
    /\ lastOp' = Op("sweep", 0, FALSE, FALSE)
    /\ lastSweep' = now
    /\ UNCHANGED now

\* the clock advances by a millisecond
Advance ==
    /\ now' = now + 1
    /\ lastOp' = Op("tick", 0, FALSE, FALSE)
    /\ reclaimed' = <<>>
    /\ calls' = <<>>
    /\ seen' = <<>>
    /\ escaped' = FALSE
    /\ timedSet' = TimedSetSelf
    /\ UNCHANGED <<timers, options, entries, buckets, gcTimer, listeners, lastAdd,
                   lastSweep, delivered>>

Tick == now < MaxTime /\ Advance

\* the operations on the ExpiringSet instance, the TimedSet instance idle
Add(v) == AddCall(v) /\ UNCHANGED timedSet

Delete(v) == DeleteCall(v) /\ UNCHANGED timedSet

Clear == ClearCall /\ UNCHANGED timedSet

Listen(f) == ListenCall(f) /\ UNCHANGED timedSet

Fire == FireCall /\ UNCHANGED timedSet

\* the same operations made on both instances at once: the same call with
\* the same argument at the same clock reading, and the pending timers of
\* both firing together
BothAdd(v) == AddCall(v) /\ timedSet' = TimedSet_add(TimedSetSelf, v, now)

BothDelete(v) ==
    DeleteCall(v) /\ timedSet' = TimedSet_delete(TimedSetSelf, v, now)

BothClear == ClearCall /\ timedSet' = TimedSet_clear(TimedSetSelf, now)

BothListen(f) == ListenCall(f) /\ timedSet' = TimedSet_listen(TimedSetSelf, f)

BothFire ==
    /\ FireCall
    /\ timedSet' =
          IF \E tm \in timedSet.timers : now >= tm.due
          THEN LET tm == CHOOSE x \in timedSet.timers : now >= x.due
               IN TimedSet__gc([TimedSetSelf EXCEPT !.timers = @ \ {tm}], now)
          ELSE TimedSetSelf

Next ==
    \/ \E v \in Values : Add(v)
    \/ \E v \in Values : Delete(v)
    \/ Clear
    \/ \E f \in ListenerKinds : Listen(f)
    \/ Fire
    \/ Tick

Spec == Init /\ [][Next]_vars

\* both classes, constructed empty with the same options and driven alike
PairInit == Init /\ DOMAIN entries = {}

PairNext ==
    \/ \E v \in Values : BothAdd(v)
    \/ \E v \in Values : BothDelete(v)
    \/ BothClear
    \/ \E f \in ListenerKinds : BothListen(f)
    \/ BothFire
    \/ Tick

PairSpec == PairInit /\ [][PairNext]_vars

\* the same system constructed with a gc option of any sign
AnyGcSpec == AnyGcInit /\ [][Next]_vars

\* the same system with listeners that call back into the set: the caller
\* adds, the listeners add, delete and clear, and the clock stops when the
\* caller does
ReentrantTick == now < MaxOpTime /\ Advance

ReentrantNext ==
    \/ \E v \in Values : Add(v)
    \/ \E f \in ReentrantKinds : Listen(f)
    \/ Fire
    \/ ReentrantTick

ReentrantSpec == Init /\ [][ReentrantNext]_vars

\* a caller that only adds and stops early, after which only the host acts:
\* a due timer callback is run by the host, and time passes
QuietAdd == now <= LastCallTime /\ \E v \in Values : Add(v)

QuietTick == now < QuietMaxTime /\ Advance

QuietNext ==
    \/ QuietAdd
    \/ Fire
    \/ QuietTick

QuietSpec ==
    Init /\ [][QuietNext]_vars /\ WF_vars(Fire) /\ WF_vars(QuietTick)

TypeOK ==
    /\ now \in Nat
    /\ gcTimer \in Nat
    /\ DOMAIN entries \subseteq Values
    /\ \A tm \in timers : tm.h \in Nat \ {0} /\ tm.due \in Nat

(* ------------------------------ properties ----------------------------- *)

\* the instance after a step, as far as has() reads it
SelfNext == [entries |-> entries', options |-> options']

\* the buckets that hold v
BucketsOf(v) == {i \in 1..Len(buckets) : InSeq(buckets[i].vals, v)}

\* C1: a value added at t0 and not deleted or cleared since has has(v) true
\* at every clock reading now with t0 <= now < t0 + ttl, whatever sweeps
\* have fired.
C1_PresentForTtl ==
    \A v \in Values :
        (lastAdd[v] # Never /\ now < lastAdd[v] + options.ttl)
            => has(Self, v, now)

\* C2: a sweep removes only values for which has() was false just before it,
\* so has() answers the same before and after a sweep at one clock reading.
C2_SweepOnlyExpired ==
    [][lastOp'.op = "sweep" =>
          /\ \A v \in DOMAIN entries \ DOMAIN entries' : ~has(Self, v, now)
          /\ \A v \in Values : has(SelfNext, v, now') = has(Self, v, now)]_vars

\* C3: after every public operation and every sweep a timer is pending
\* (gcTimer is set and the host holds exactly that timer) if and only if the
\* entry map is non-empty.
C3_TimerIffNonEmpty ==
    /\ (gcTimer # Undefined) <=> (DOMAIN entries # {})
    /\ gcTimer = Undefined => timers = {}
    /\ gcTimer # Undefined =>
           /\ Cardinality(timers) = 1
           /\ \A tm \in timers : tm.h = gcTimer

\* a delete has just emptied the set and the timer is gone
C3_Witness ==
    /\ lastOp.op = "delete"
    /\ lastOp.ret
    /\ DOMAIN entries = {}
    /\ gcTimer = Undefined
    /\ timers = {}

\* C4: the entry map and the bucket map agree: v has entry id b exactly when
\* v is a member of bucket b, and no value is in more than one bucket.
C4_EntriesMatchBuckets ==
    /\ \A v \in Values : \A i \in 1..Len(buckets) :
           InSeq(buckets[i].vals, v)
               <=> (v \in DOMAIN entries /\ entries[v] = buckets[i].id)
    /\ \A v \in DOMAIN entries : Cardinality(BucketsOf(v)) = 1
    /\ \A v \in Values : Cardinality(BucketsOf(v)) <= 1
    /\ \A i, j \in 1..Len(buckets) : buckets[i].id = buckets[j].id => i = j
    /\ \A i \in 1..Len(buckets) : \A j, k \in 1..Len(buckets[i].vals) :
           buckets[i].vals[j] = buckets[i].vals[k] => j = k

\* a re-add has just moved a value to a newer bucket while another value
\* stays behind in an older one
C4_Witness ==
    /\ lastOp.op = "add"
    /\ lastOp.ret
    /\ Len(buckets) = 2
    /\ Cardinality(DOMAIN entries) = 2

\* C5: a bucket id is a key of the bucket map only while its set is
\* non-empty: add on refresh, delete and sweep leave no empty bucket.
C5_NoEmptyBucket ==
    \A i \in 1..Len(buckets) : Len(buckets[i].vals) > 0

\* a re-add has just moved the only value out of its old bucket, which is gone
C5_Witness ==
    /\ lastOp.op = "add"
    /\ lastOp.ret
    /\ Len(buckets) = 1
    /\ buckets[1].id = BucketId(now, options)

\* nothing is tracked and nothing is scheduled
Reclaimed ==
    /\ DOMAIN entries = {}
    /\ buckets = <<>>
    /\ gcTimer = Undefined
    /\ timers = {}

\* C6: once ttl + 2*gc ms have passed since the add of v, has(v) is false;
\* and when the caller has stopped, the timer alone empties the set: size 0,
\* both maps empty, no timer pending.
C6_AutoReclaim ==
    /\ [](\A v \in Values :
              (lastAdd[v] # Never
                  /\ now >= lastAdd[v] + options.ttl + 2 * options.gc)
                  => ~has(Self, v, now))
    /\ (DOMAIN entries # {}) ~> Reclaimed

\* after the caller's last operation a sweep has reclaimed the last values
C6_Witness ==
    /\ now > LastCallTime
    /\ lastOp.op = "sweep"
    /\ Len(reclaimed) > 0
    /\ size(Self) = 0
    /\ Reclaimed

\* C7 as stated: when more than ttl ms have passed since the last add of v
\* and no sweep has fired since, has(v) is false while v is still tracked.
C7_ExpiredAfterTtl ==
    \A v \in Values :
        (lastAdd[v] # Never /\ lastSweep < lastAdd[v]
            /\ now > lastAdd[v] + options.ttl)
            => /\ ~has(Self, v, now)
               /\ v \in DOMAIN entries
               /\ BucketsOf(v) # {}

\* C7, amended: when at least ttl + gc ms have passed since the last add of
\* v and no sweep has fired since, has(v) is false while v is still tracked
\* (size counts it and its bucket exists).
C7_ExpiredAfterTtlPlusGc ==
    \A v \in Values :
        (lastAdd[v] # Never /\ lastSweep < lastAdd[v]
            /\ now >= lastAdd[v] + options.ttl + options.gc)
            => /\ ~has(Self, v, now)
               /\ v \in DOMAIN entries
               /\ BucketsOf(v) # {}

\* a value is overdue and no sweep has run since it was added
C7_Witness ==
    \E v \in Values :
        /\ lastAdd[v] # Never
        /\ lastSweep < lastAdd[v]
        /\ now >= lastAdd[v] + options.ttl + options.gc
        /\ v \in DOMAIN entries
        /\ size(Self) >= 1

\* C8: if v was last added at t0, has(v) is false at every clock reading
\* now >= t0 + ttl + gc, whether or not a sweep has run or v is still tracked.
C8_GoneAfterTtlPlusGc ==
    \A v \in Values :
        (lastAdd[v] # Never /\ now >= lastAdd[v] + options.ttl + options.gc)
            => ~has(Self, v, now)

\* a value is overdue and still tracked although a sweep has run since its
\* last add
C8_Witness ==
    \E v \in Values :
        /\ lastAdd[v] # Never
        /\ lastSweep >= lastAdd[v]
        /\ now >= lastAdd[v] + options.ttl + options.gc
        /\ v \in DOMAIN entries

\* the values of `gone` held by the buckets with index in I, by ascending
\* bucket id, and in insertion order within a bucket
RECURSIVE BatchOf(_, _, _)
BatchOf(bs, gone, I) ==
    IF I = {}
    THEN <<>>
    ELSE LET i == CHOOSE i \in I : \A j \in I : bs[i].id <= bs[j].id
         IN SelectSeq(bs[i].vals, LAMBDA x : x \in gone)
                \o BatchOf(bs, gone, I \ {i})

\* C9: a sweep calls each listener exactly once, with one batch holding all
\* the values it reclaimed in ascending bucket-id order (insertion order
\* within a bucket), and calls no listener when it reclaimed nothing.
C9_OneBatchPerSweep ==
    [][lastOp'.op = "sweep" =>
          LET gone == DOMAIN entries \ DOMAIN entries'
              batch == BatchOf(buckets, gone, 1..Len(buckets))
          IN /\ gone = {} => calls' = <<>>
             /\ gone # {} =>
                    \A i \in 1..Len(listeners) :
                        Cardinality({k \in 1..Len(calls') :
                                        calls'[k].listener = i}) = 1
             /\ \A k \in 1..Len(calls') :
                    /\ calls'[k].values = batch
                    /\ Len(calls'[k].values) > 0
                    /\ calls'[k].listener \in 1..Len(listeners)]_vars

\* a sweep has just handed a listener one batch with values of two buckets
C9_Witness ==
    /\ lastOp.op = "sweep"
    /\ Len(calls) >= 1
    /\ Len(reclaimed) = 2
    /\ BucketId(lastAdd[reclaimed[1]], options)
           < BucketId(lastAdd[reclaimed[2]], options)

\* C10: when a listener throws during a sweep, the listeners are still all
\* called with the batch in registration order, no exception leaves the
\* sweep, and entries, buckets and timer end as if no listener had thrown.
C10_ListenerIsolation ==
    [][(lastOp'.op = "sweep" /\ reclaimed' # <<>>
           /\ \E i \in 1..Len(listeners) : listeners[i] = "throws") =>
          /\ ~escaped'
          /\ calls' = [i \in 1..Len(listeners) |->
                          [listener |-> i, values |-> reclaimed']]
          /\ listeners' = listeners
          /\ \E tm \in timers :
                 /\ now >= tm.due
                 /\ LET r == performGarbageCollection(
                                 [Self EXCEPT
                                     !.timers = @ \ {tm},
                                     !.listeners = [i \in 1..Len(listeners)
                                                       |-> "returns"]], now)
                    IN /\ entries' = r.entries
                       /\ buckets' = r.buckets
                       /\ gcTimer' = r.gcTimer
                       /\ timers' = r.timers]_vars

\* a sweep has just called a listener registered after one that throws
C10_Witness ==
    /\ lastOp.op = "sweep"
    /\ Len(listeners) = 2
    /\ listeners[1] = "throws"
    /\ Len(calls) = 2
    /\ calls[2].listener = 2
    /\ ~escaped

\* C11: a set constructed with gc <= 0 is rejected by the constructor: the
\* construction throws, and no instance with gc <= 0 goes on to add, has or
\* sweep.
C11_NonPositiveGcRejected ==
    options.gc <= 0 =>
        /\ lastOp.op = "new"
        /\ escaped
        /\ DOMAIN entries = {}
        /\ timers = {}

\* the buckets that hold v after the step
BucketsOfNext(v) == {i \in 1..Len(buckets') : InSeq(buckets'[i].vals, v)}

\* the ids of the buckets that hold v, before and after the step
BucketIdsOf(v) == {buckets[i].id : i \in BucketsOf(v)}
BucketIdsOfNext(v) == {buckets'[i].id : i \in BucketsOfNext(v)}

\* C12: add(v) of a value that is still physically present keeps v in
\* exactly one bucket and leaves size unchanged; the recorded id becomes
\* floor(now / gc) and differs from the old one exactly when the current
\* bucket id has advanced; has(v) is true right after, even when v was
\* logically expired before; and a re-add within the same bucket slot leaves
\* the whole state unchanged.
C12_ReAddRefreshes ==
    [][(lastOp'.op = "add" /\ lastOp'.v \in DOMAIN entries) =>
          LET v == lastOp'.v
              id == now \div options.gc
          IN /\ Cardinality(BucketsOfNext(v)) = 1
             /\ Cardinality(DOMAIN entries') = Cardinality(DOMAIN entries)
             /\ entries'[v] = id
             /\ BucketIdsOfNext(v) = {id}
             /\ (entries'[v] # entries[v]) <=> (id > entries[v])
             /\ has(SelfNext, v, now')
             /\ (entries[v] = id =>
                    UNCHANGED <<entries, buckets, gcTimer, timers, options,
                                listeners>>)]_vars

\* an expired, unswept value was added again, moved to the current bucket,
\* and is present again
C12_Witness ==
    /\ lastOp.op = "add"
    /\ lastOp.ret
    /\ ~lastOp.had
    /\ has(Self, lastOp.v, now)
    /\ Cardinality(BucketsOf(lastOp.v)) = 1

\* C13: at most one host timer is outstanding at any time; an add or delete
\* on a set that stays non-empty while a timer is pending neither arms a
\* second timer nor postpones the pending one; and no sweep runs while the
\* set is empty (a cancelled timer never fires).
C13_SingleTimer ==
    [][/\ Cardinality(timers) <= 1
       /\ Cardinality(timers') <= 1
       /\ (/\ lastOp'.op \in {"add", "delete"}
           /\ timers # {}
           /\ DOMAIN entries' # {}) =>
              (timers' = timers /\ gcTimer' = gcTimer)
       /\ lastOp'.op = "sweep" => DOMAIN entries # {}]_vars

\* an add came while a timer armed at an earlier clock reading was pending,
\* and that timer is still the one outstanding
C13_Witness ==
    /\ lastOp.op = "add"
    /\ Cardinality(DOMAIN entries) = 2
    /\ \E tm \in timers : tm.h = gcTimer /\ tm.due < now + options.gc

\* C14: right after add(v), and right after a construction with v among the
\* initial values, has(v) is true and the sweep timer is pending, whatever
\* ttl > 0 and gc > 0; for a value never added has is false.
C14_PresentAfterAdd ==
    /\ lastOp.op = "add" =>
          /\ has(Self, lastOp.v, now)
          /\ gcTimer # Undefined
          /\ \E tm \in timers : tm.h = gcTimer
    /\ lastOp.op = "new" =>
          \A v \in Values : lastAdd[v] # Never =>
              /\ has(Self, v, now)
              /\ gcTimer # Undefined
              /\ \E tm \in timers : tm.h = gcTimer
    /\ \A v \in Values : lastAdd[v] = Never => ~has(Self, v, now)

\* a value was just added in the bucket that is also the threshold bucket,
\* and another value has never been added
C14_Witness ==
    /\ lastOp.op = "add"
    /\ has(Self, lastOp.v, now)
    /\ entries[lastOp.v] = ExpiredId(now, options)
    /\ \E w \in Values : lastAdd[w] = Never /\ ~has(Self, w, now)

\* C15: delete(v) of a value with no entry returns false and changes neither
\* map nor the timer; delete(v) of a value with an entry returns true, after
\* which has(v) is false, size is one less, v is in no bucket, and every
\* other value keeps its entry and its bucket.
C15_DeleteFrame ==
    [][lastOp'.op = "delete" =>
          LET v == lastOp'.v
          IN /\ lastOp'.ret = (v \in DOMAIN entries)
             /\ v \notin DOMAIN entries =>
                   UNCHANGED <<entries, buckets, gcTimer, timers>>
             /\ v \in DOMAIN entries =>
                   /\ ~has(SelfNext, v, now')
                   /\ Cardinality(DOMAIN entries') =
                          Cardinality(DOMAIN entries) - 1
                   /\ BucketsOfNext(v) = {}
                   /\ \A w \in Values \ {v} :
                          /\ (w \in DOMAIN entries') = (w \in DOMAIN entries)
                          /\ w \in DOMAIN entries => entries'[w] = entries[w]
                          /\ BucketIdsOfNext(w) = BucketIdsOf(w)]_vars

\* a tracked value was deleted and the other value, which shared nothing
\* but possibly its bucket, is still tracked
C15_Witness ==
    /\ lastOp.op = "delete"
    /\ lastOp.ret
    /\ \E w \in DOMAIN entries : w # lastOp.v /\ BucketsOf(w) # {}

\* C16: after clear(), from any reachable state, has(v) is false for every
\* v, size is 0, the bucket map is empty and no timer is pending; the
\* listener list is unchanged and no listener is invoked.
C16_ClearEmpties ==
    [][lastOp'.op = "clear" =>
          /\ \A v \in Values : ~has(SelfNext, v, now')
          /\ DOMAIN entries' = {}
          /\ buckets' = <<>>
          /\ gcTimer' = Undefined
          /\ timers' = {}
          /\ listeners' = listeners
          /\ calls' = <<>>]_vars

\* a set with entries and a listener was cleared
C16_Witness ==
    /\ lastOp.op = "clear"
    /\ lastOp.had
    /\ Len(listeners) > 0
    /\ DOMAIN entries = {}
    /\ timers = {}

\* C17: forEach calls the callback for exactly the values v with has(v) true
\* at that instant, once each: a logically expired, unswept entry is
\* skipped, every other tracked entry is visited.
C17_ForEachVisitsPresent ==
    LET visits == forEach(Self, now)
    IN \A v \in Values :
          Cardinality({i \in 1..Len(visits) : visits[i] = v}) =
              IF has(Self, v, now) THEN 1 ELSE 0

\* one tracked value is logically expired and unswept, another is present
C17_Witness ==
    /\ \E v \in DOMAIN entries : ~has(Self, v, now)
    /\ \E w \in DOMAIN entries : has(Self, w, now)
    /\ Len(forEach(Self, now)) = 1

\* C18: a sweep leaves every bucket with id > floor((now - ttl) / gc) and
\* the entries of its values as they were; when no bucket is at or below
\* that threshold the sweep changes neither map, calls no listener, and only
\* arms the timer again.
C18_SweepFrame ==
    [][lastOp'.op = "sweep" =>
          LET threshold == (now - options.ttl) \div options.gc
              above == SelectSeq(buckets, LAMBDA b : b.id > threshold)
          IN /\ SelectSeq(buckets', LAMBDA b : b.id > threshold) = above
             /\ \A i \in 1..Len(above) :
                   \A j \in 1..Len(above[i].vals) :
                       LET v == above[i].vals[j]
                       IN /\ v \in DOMAIN entries'
                          /\ entries'[v] = entries[v]
             /\ above = buckets =>
                   /\ entries' = entries
                   /\ buckets' = buckets
                   /\ calls' = <<>>
                   /\ reclaimed' = <<>>
                   /\ listeners' = listeners
                   /\ gcTimer' # Undefined
                   /\ timers' = {[h |-> gcTimer', due |-> now + options.gc]}]_vars

\* a sweep that reclaimed one bucket and kept a younger one
C18_Witness ==
    /\ lastOp.op = "sweep"
    /\ reclaimed # <<>>
    /\ buckets # <<>>
    /\ \A i \in 1..Len(buckets) : buckets[i].id > ExpiredId(now, options)

\* the state invariants, of the instance s: the timer is armed exactly when
\* entries exist and is the only one outstanding, the entry map and the
\* bucket map agree, and no bucket is empty
Consistent(s) ==
    /\ (s.gcTimer # Undefined) <=> (DOMAIN s.entries # {})
    /\ s.timers = IF s.gcTimer = Undefined
                  THEN {}
                  ELSE {tm \in s.timers : tm.h = s.gcTimer}
    /\ Cardinality(s.timers) <= 1
    /\ \A v \in Values : \A i \in 1..Len(s.buckets) :
           InSeq(s.buckets[i].vals, v)
               <=> (v \in DOMAIN s.entries /\ s.entries[v] = s.buckets[i].id)
    /\ \A v \in DOMAIN s.entries :
           \E i \in 1..Len(s.buckets) : InSeq(s.buckets[i].vals, v)
    /\ \A i, j \in 1..Len(s.buckets) :
           s.buckets[i].id = s.buckets[j].id => i = j
    /\ \A i \in 1..Len(s.buckets) : Len(s.buckets[i].vals) > 0

\* v is in neither map of the instance s
Absent(s, v) ==
    /\ v \notin DOMAIN s.entries
    /\ \A i \in 1..Len(s.buckets) : ~InSeq(s.buckets[i].vals, v)

\* C19, as stated: whenever a listener is called, every value of the batch
\* is absent from the entry map and the bucket map, the timer is armed
\* exactly when entries remain and the state invariants hold; and they hold
\* when the sweep is over, whatever add, delete or clear the listeners made.
C19_BatchAbsentAtEveryCall ==
    /\ Len(seen) = Len(calls)
    /\ \A k \in 1..Len(seen) :
          /\ \A j \in 1..Len(calls[k].values) :
                 Absent(seen[k], calls[k].values[j])
          /\ Consistent(seen[k])
    /\ Consistent(Self)

\* C19: when the first listener of a sweep is called, every value of the
\* batch is absent from the entry map and the bucket map; when a later
\* listener is called, a value of the batch is absent unless an earlier
\* listener of the same sweep added it again; at every call the timer is
\* armed exactly when entries remain and the state invariants hold; and
\* they hold when the sweep is over, whatever add, delete or clear the
\* listeners made.
C19_BookkeepingBeforeListeners ==
    /\ Len(seen) = Len(calls)
    /\ \A k \in 1..Len(seen) :
          /\ \A j \in 1..Len(calls[k].values) :
                 \/ Absent(seen[k], calls[k].values[j])
                 \/ /\ j = 1
                    /\ \E i \in 1..(k - 1) :
                           listeners[calls[i].listener] = "adds"
          /\ Consistent(seen[k])
    /\ Consistent(Self)

\* a sweep called two listeners; the first added a value of the batch again
\* and the second found it tracked
C19_Witness ==
    /\ lastOp.op = "sweep"
    /\ Len(seen) = 2
    /\ listeners[1] = "adds"
    /\ Absent(seen[1], reclaimed[1])
    /\ ~Absent(seen[2], reclaimed[1])
    /\ Consistent(seen[2])

\* C20: right after a sweep, before the clock advances, no logically
\* expired entry remains: every value still in the entry map has has(v)
\* true, so size is the number of logically present values.
C20_NoExpiredAfterSweep ==
    lastOp.op = "sweep" =>
        /\ \A v \in DOMAIN entries : has(Self, v, now)
        /\ size(Self) = Cardinality({v \in Values : has(Self, v, now)})

\* a late sweep reclaimed a value and left a present one
C20_Witness ==
    /\ lastOp.op = "sweep"
    /\ reclaimed # <<>>
    /\ \E tm \in timers : tm.due = now + options.gc
    /\ \E v \in DOMAIN entries : has(Self, v, now)

\* C21: listeners are called only by sweeps; a value removed by delete or
\* clear and not added since is in no batch; each add of a value puts it in
\* at most one batch; and no batch holds a value twice.
C21_BatchesFromSweepsOnly ==
    [][/\ calls' # <<>> => lastOp'.op = "sweep"
       /\ \A k \in 1..Len(calls') : calls'[k].values = reclaimed'
       /\ \A j \in 1..Len(reclaimed') :
             /\ lastAdd[reclaimed'[j]] # Never
             /\ delivered[reclaimed'[j]] = 0
             /\ Occurrences(reclaimed', reclaimed'[j]) = 1
       /\ \A v \in Values : delivered'[v] <= 1]_vars

\* a sweep told a listener of one value, while the other value, delivered by
\* an earlier sweep and not added since, stays out of the batch
C21_Witness ==
    /\ lastOp.op = "sweep"
    /\ calls # <<>>
    /\ Len(reclaimed) = 1
    /\ \E w \in Values : w # reclaimed[1] /\ delivered[w] = 1

\* C22: delete(v) returns true exactly when v was physically tracked
\* (counted by size) just before the call, whether or not it had logically
\* expired: for a value that is expired but not yet swept, has(v) is false,
\* yet delete(v) returns true and removes it.
C22_DeleteIgnoresExpiry ==
    [][lastOp'.op = "delete" =>
          LET v == lastOp'.v
              tracked == v \in DOMAIN entries
          IN /\ lastOp'.ret = tracked
             /\ tracked => size(SelfNext) = size(Self) - 1
             /\ ~tracked => size(SelfNext) = size(Self)
             /\ (tracked /\ ~has(Self, v, now)) =>
                    /\ lastOp'.ret
                    /\ v \notin DOMAIN entries'
                    /\ BucketsOfNext(v) = {}]_vars

\* a value that had logically expired and was not yet swept was deleted,
\* and delete returned true
C22_Witness ==
    /\ lastOp.op = "delete"
    /\ lastOp.ret
    /\ ~lastOp.had
    /\ lastOp.v \notin DOMAIN entries

\* C23: the clock never goes back, and every recorded bucket id, of an
\* entry or of a bucket, is at most the current bucket id floor(now / gc);
\* the bucket map iterates in ascending id order in every reachable state,
\* also after a bucket was emptied and deleted and a new one created by a
\* refresh.
C23_BucketsAscending ==
    /\ \A v \in DOMAIN entries : entries[v] <= now \div options.gc
    /\ \A i \in 1..Len(buckets) : buckets[i].id <= now \div options.gc
    /\ \A i, j \in 1..Len(buckets) :
           i < j => buckets[i].id < buckets[j].id

\* a refresh emptied and removed the oldest bucket and created the current
\* one behind a bucket that stayed
C23_Witness ==
    /\ lastOp.op = "add"
    /\ lastOp.ret
    /\ Len(buckets) = 2
    /\ buckets[1].id < buckets[2].id
    /\ buckets[2].id = now \div options.gc
    /\ buckets[2].vals = <<lastOp.v>>
    /\ lastSweep = Never

\* C24: TimedSet and ExpiringSet, constructed empty with the same ttl and gc
\* and driven by the same adds, deletes, clears, listens, clock ticks and
\* timer firings, have the same entry map, the same bucket map and a timer
\* pending at the same times; has and size return the same; and their
\* listeners get the same batches.
C24_TimedSetEquivalent ==
    /\ timedSet.entries = entries
    /\ timedSet.buckets = buckets
    /\ (timedSet.gcTimer # Undefined) = (gcTimer # Undefined)
    /\ {tm.due : tm \in timedSet.timers} = {tm.due : tm \in timers}
    /\ Cardinality(timedSet.timers) = Cardinality(timers)
    /\ \A v \in Values : TimedSet_has(timedSet, v, now) = has(Self, v, now)
    /\ TimedSet_size(timedSet) = size(Self)
    /\ timedSet.calls = calls
    /\ timedSet.values = reclaimed
    /\ timedSet.exc = escaped

\* both instances have swept, told their listeners of the same batch and
\* kept the same younger entry
C24_Witness ==
    /\ lastOp.op = "sweep"
    /\ calls # <<>>
    /\ timedSet.calls = calls
    /\ DOMAIN entries # {}
    /\ timedSet.entries = entries
    /\ timedSet.timers # {}

====
